---- MODULE Spec2Model ----
(***************************************************************************)
(* PaymentManager (payments/static/payments/js/payments.js): the payment   *)
(* form controller of Ebi3.  The model is the page's DOM state the class   *)
(* reads and writes, one action per event handler or timer callback.       *)
(*                                                                         *)
(* Strings are sequences of one-character strings, so that trimming,       *)
(* parsing and the regular expressions are computed and not assumed.       *)
(* Numbers that come out of parseInt/parseFloat are records [nan, v]; a    *)
(* parseFloat value v is counted in thousandths.                           *)
(***************************************************************************)
EXTENDS Integers, Sequences, FiniteSets, TLC

\* ------------------------------------------------------------------------
\* Characters and strings
\* ------------------------------------------------------------------------
DigitChar == <<"0", "1", "2", "3", "4", "5", "6", "7", "8", "9">>

DigitChars == {DigitChar[i] : i \in 1..10}

Whitespace == {" "}

\* the digit a character stands for ("7" -> 7)
DigitVal(c) == CHOOSE d \in 0..9 : DigitChar[d + 1] = c

\* the string of a tuple of digits: Digits(<<4, 2>>) is "42"
Digits(ds) == [i \in DOMAIN ds |-> DigitChar[ds[i] + 1]]

NaN == [nan |-> TRUE, v |-> 0]

Num(n) == [nan |-> FALSE, v |-> n]

\* String(undefined): what parseInt/parseFloat see for a missing attribute
Undefined == <<"u", "n", "d", "e", "f", "i", "n", "e", "d">>

RECURSIVE SkipLeading(_)
SkipLeading(s) ==
    IF s # <<>> /\ Head(s) \in Whitespace THEN SkipLeading(Tail(s)) ELSE s

RECURSIVE DropTrailing(_)
DropTrailing(s) ==
    IF s # <<>> /\ s[Len(s)] \in Whitespace
    THEN DropTrailing(SubSeq(s, 1, Len(s) - 1))
    ELSE s

\* String.prototype.trim
Trim(s) == DropTrailing(SkipLeading(s))

\* s.replace(/\s/g, '')
StripWhitespace(s) == SelectSeq(s, LAMBDA c : c \notin Whitespace)

\* the longest prefix of s made of digits
RECURSIVE DigitPrefix(_)
DigitPrefix(s) ==
    IF s # <<>> /\ Head(s) \in DigitChars
    THEN <<Head(s)>> \o DigitPrefix(Tail(s))
    ELSE <<>>

\* the value of a string of digits, most significant first
RECURSIVE DigitsValue(_)
DigitsValue(ds) ==
    IF ds = <<>> THEN 0
    ELSE 10 * DigitsValue(SubSeq(ds, 1, Len(ds) - 1)) + DigitVal(ds[Len(ds)])

\* parseInt(s) / parseInt(s, 10): leading whitespace skipped, an optional
\* sign, then the digits up to the first other character; NaN without digits
ParseInt(s) ==
    LET t    == SkipLeading(s)
        neg  == t # <<>> /\ Head(t) = "-"
        body == IF t # <<>> /\ Head(t) \in {"-", "+"} THEN Tail(t) ELSE t
        ds   == DigitPrefix(body)
    IN  IF ds = <<>> THEN NaN
        ELSE Num(IF neg THEN 0 - DigitsValue(ds) ELSE DigitsValue(ds))

\* 10^n
RECURSIVE Pow10(_)
Pow10(n) == IF n = 0 THEN 1 ELSE 10 * Pow10(n - 1)

\* parseFloat(s), in thousandths: sign, integer digits, an optional fraction;
\* NaN when neither part has a digit.  Inputs carry at most three decimals.
ParseFloat(s) ==
    LET t     == SkipLeading(s)
        neg   == t # <<>> /\ Head(t) = "-"
        body  == IF t # <<>> /\ Head(t) \in {"-", "+"} THEN Tail(t) ELSE t
        ip    == DigitPrefix(body)
        rest  == SubSeq(body, Len(ip) + 1, Len(body))
        fp    == IF rest # <<>> /\ Head(rest) = "." THEN DigitPrefix(Tail(rest)) ELSE <<>>
        fp3   == SubSeq(fp, 1, IF Len(fp) < 3 THEN Len(fp) ELSE 3)
        mag   == 1000 * DigitsValue(ip) + DigitsValue(fp3) * Pow10(3 - Len(fp3))
    IN  IF ip = <<>> /\ fp = <<>> THEN NaN
        ELSE Num(IF neg THEN 0 - mag ELSE mag)

\* ------------------------------------------------------------------------
\* Field validators
\* ------------------------------------------------------------------------
MinCardLength == 13

MaxCardLength == 19

\* LuhnDigit without the "digit -= 9" of line 245
LuhnDigitNoWrap(digit, isEven) ==
    IF digit.nan THEN NaN
    ELSE IF ~isEven THEN digit
    ELSE Num(2 * digit.v)

\* one round of the Luhn loop's body on a parsed digit
LuhnDigit(digit, isEven) ==
    IF digit.nan THEN NaN
    ELSE IF ~isEven THEN digit
    ELSE IF 2 * digit.v > 9 THEN Num(2 * digit.v - 9)
    ELSE Num(2 * digit.v)

\* sum += digit
Plus(a, b) == IF a.nan \/ b.nan THEN NaN ELSE Num(a.v + b.v)

\* for (let i = cleaned.length - 1; i >= 0; i--) { ... }, i counted from 1
RECURSIVE LuhnLoop(_, _, _, _)
LuhnLoop(cleaned, i, sum, isEven) ==
    IF i < 1 THEN sum
    ELSE LuhnLoop(cleaned, i - 1,
                  Plus(sum, LuhnDigit(ParseInt(<<cleaned[i]>>), isEven)),
                  ~isEven)

validateCardNumber(cardNumber) ==
    LET cleaned == StripWhitespace(cardNumber)
    IN  IF Len(cleaned) < MinCardLength \/ Len(cleaned) > MaxCardLength
        THEN FALSE
        ELSE LET sum == LuhnLoop(cleaned, Len(cleaned), Num(0), FALSE)
             IN  ~sum.nan /\ sum.v % 10 = 0

\* /^\d{2}\/\d{2}$/
MatchesExpiryPattern(s) ==
    /\ Len(s) = 5
    /\ s[1] \in DigitChars /\ s[2] \in DigitChars
    /\ s[3] = "/"
    /\ s[4] \in DigitChars /\ s[5] \in DigitChars

\* validateExpiryDate with "month <= currentMonth" in line 270
validateExpiryDateStrict(expiryDate, now) ==
    IF ~MatchesExpiryPattern(expiryDate) THEN FALSE
    ELSE LET month        == DigitsValue(SubSeq(expiryDate, 1, 2))
             year         == DigitsValue(SubSeq(expiryDate, 4, 5))
             currentYear  == now.year % 100
             currentMonth == now.month
         IN  IF month < 1 \/ month > 12 THEN FALSE
             ELSE IF year < currentYear \/ (year = currentYear /\ month <= currentMonth)
             THEN FALSE
             ELSE TRUE

\* now is the clock's reading, [year |-> full year, month |-> 1..12]
validateExpiryDate(expiryDate, now) ==
    IF ~MatchesExpiryPattern(expiryDate) THEN FALSE
    ELSE LET month        == DigitsValue(SubSeq(expiryDate, 1, 2))
             year         == DigitsValue(SubSeq(expiryDate, 4, 5))
             currentYear  == now.year % 100
             currentMonth == now.month
         IN  IF month < 1 \/ month > 12 THEN FALSE
             ELSE IF year < currentYear \/ (year = currentYear /\ month < currentMonth)
             THEN FALSE
             ELSE TRUE

\* /^\d{3,4}$/
validateCVV(cvv) ==
    /\ Len(cvv) \in {3, 4}
    /\ \A i \in 1..Len(cvv) : cvv[i] \in DigitChars

DefaultMin == 10

DefaultMax == 100000000

\* parseFloat(attr) || fallback: NaN and 0 are both falsy
OrDefault(parsed, fallback) ==
    IF parsed.nan \/ parsed.v = 0 THEN fallback ELSE parsed.v

\* dataMin, dataMax: the data-min and data-max attributes of #amount
validateAmount(amount, dataMin, dataMax) ==
    LET min   == OrDefault(ParseFloat(dataMin), DefaultMin)
        max   == OrDefault(ParseFloat(dataMax), DefaultMax)
        value == ParseFloat(amount)
    IN  ~value.nan /\ value.v >= min /\ value.v <= max

\* !cardName || cardName.trim().length < 2, negated
validateCardName(cardName) == Len(Trim(cardName)) >= 2

\* ------------------------------------------------------------------------
\* The page
\* ------------------------------------------------------------------------
\* A page holds one or two .payment-form elements, in document order.  Each
\* holds its .payment-method-card indicators (one per method), its submit
\* button, a .download-invoice button and a .countdown-timer element.  The
\* lookups by id or by document.querySelector (#selected_payment_method,
\* #submit-btn, #terms, #amount, #payment-form, input[name=...]) find the
\* first match in document order: the elements of FirstForm.  Outside the
\* forms the page holds one .generate-qr button with #qr-code-container, and
\* one .copy-reference button with its <i> icon.
Forms == {1, 2}

FirstForm == 1

Methods == {"CREDIT_CARD", "DEBIT_CARD", "BANK_TRANSFER", "MOBILE_MONEY"}

FieldNames == {"card_number", "expiry_date", "cvv", "card_name", "amount"}

DefaultSeconds == 1800

VARIABLES
    forms,        \* the forms present on the page
    selected,     \* the cards <<form, method>> that carry the class 'selected'
    hidden,       \* value of #selected_payment_method ("" when none)
    visiblePanel, \* the method whose <method>-details panel is displayed
    field,        \* value of each named input
    terms,        \* #terms is checked
    amountAttr,   \* [min, max]: the data-min and data-max attributes of #amount
    now,          \* the clock: [year, month]
    submitBtn,    \* per form, button[type=submit]: [disabled, label]
    dlBtn,        \* per form, .download-invoice: [disabled, label, pending, originalText]
    secondsAttr,  \* per form, data-seconds of its .countdown-timer element
    countdown,    \* per form, the closure of startCountdown and its element
    qrContainer,  \* what #qr-code-container shows
    qrInFlight,   \* the generate-qr requests awaiting their response
    qrIssued,     \* the number of generate-qr requests sent
    copyIcon,     \* className of the <i> of the .copy-reference button
    copyPending,  \* the clipboard writes not yet settled
    copyTimers,   \* the pending setTimeout reverts, oldest first: the class each restores
    copyWritten,  \* the number of clipboard writes that succeeded
    last          \* what the most recent step did

domVars == <<selected, hidden, visiblePanel, submitBtn>>

inputVars == <<field, terms>>

envVars == <<forms, amountAttr, now, secondsAttr>>

qrVars == <<qrContainer, qrInFlight, qrIssued>>

copyVars == <<copyIcon, copyPending, copyTimers, copyWritten>>

auxVars == <<qrVars, copyVars>>

vars == <<forms, selected, hidden, visiblePanel, field, terms, amountAttr, now,
          submitBtn, dlBtn, secondsAttr, countdown, qrContainer, qrInFlight, qrIssued,
          copyIcon, copyPending, copyTimers, copyWritten, last>>

\* ------------------------------------------------------------------------
\* Helpers of the handlers
\* ------------------------------------------------------------------------
Step(op, f, arg) ==
    [op |-> op, form |-> f, arg |-> arg, value |-> <<>>, ret |-> "none",
     prevented |-> FALSE, toasts |-> <<>>, events |-> <<>>]

\* showToast returning normally after the append of line 557
showToastReturns(toasts, message) ==
    [toasts |-> Append(toasts, message), threw |-> FALSE]

\* showToast(message): the toast element is appended to the container (line
\* 557), which moves it out of toastElement; toastElement.firstElementChild is
\* null from then on, so lines 559-563 end in a TypeError.  The result is the
\* toasts appended so far and whether control came back by an exception.
showToast(toasts, message) ==
    [toasts |-> Append(toasts, message), threw |-> TRUE]

\* trackEvent(eventName, data): gtag when defined, and a fetch whose rejection
\* is caught; the event posted
trackEvent(eventName, method, amount) ==
    [name |-> eventName, method |-> method, amount |-> amount]

\* one "if (!ok) { showToast(msg); isValid = false; }" of validateCardForm,
\* skipped when an earlier statement has thrown
CardCheck(s, ok, message) ==
    IF s.threw \/ ok THEN s
    ELSE LET t == showToast(s.toasts, message)
         IN  [toasts |-> t.toasts, threw |-> t.threw, isValid |-> FALSE]

validateCardForm(fld, clock) ==
    LET s0 == [toasts |-> <<>>, threw |-> FALSE, isValid |-> TRUE]
        s1 == CardCheck(s0, validateCardNumber(fld["card_number"]), "Numero de carte invalide")
        s2 == CardCheck(s1, validateExpiryDate(fld["expiry_date"], clock), "Date d'expiration invalide")
        s3 == CardCheck(s2, validateCVV(fld["cvv"]), "CVV invalide")
        s4 == CardCheck(s3, validateCardName(fld["card_name"]), "Nom sur la carte invalide")
    IN  s4

validateBankTransferForm == TRUE

\* the method-specific branch of validatePaymentForm (lines 317-323)
MethodValidation(method, fld, clock) ==
    IF method \in {"CREDIT_CARD", "DEBIT_CARD"} THEN validateCardForm(fld, clock)
    ELSE IF method = "BANK_TRANSFER"
    THEN [toasts |-> <<>>, threw |-> FALSE, isValid |-> validateBankTransferForm]
    ELSE [toasts |-> <<>>, threw |-> FALSE, isValid |-> TRUE]

\* a % b of JavaScript: the sign of the dividend
JsRem(a, b) == IF a >= 0 THEN a % b ELSE 0 - ((0 - a) % b)

\* `${minutes padded}:${secs padded}` of updateTimer
ClockText(timeLeft) ==
    [expired |-> FALSE, minutes |-> timeLeft \div 60, secs |-> JsRem(timeLeft, 60)]

ExpiredText == [expired |-> TRUE, minutes |-> 0, secs |-> 0]

\* parseInt(element.dataset.seconds) || 1800
CountdownSeconds(dataSeconds) ==
    LET p == ParseInt(dataSeconds)
    IN  IF p.nan \/ p.v = 0 THEN DefaultSeconds ELSE p.v

\* updateTimer without the clearInterval(timer) of line 400
updateTimerNoClear(c, timerBound) ==
    LET shown == [c EXCEPT !.text = ClockText(c.timeLeft)]
    IN  IF c.timeLeft <= 0
        THEN IF ~timerBound
             THEN [cd |-> shown, threw |-> TRUE, toasts |-> <<>>, disable |-> FALSE]
             ELSE LET t == showToast(<<>>, "Votre session a expire. Veuillez recommencer.")
                  IN  [cd |-> [shown EXCEPT !.text = ExpiredText,
                                            !.expired = TRUE,
                                            !.timeLeft = IF t.threw THEN @ ELSE @ - 1],
                       threw |-> t.threw, toasts |-> t.toasts, disable |-> TRUE]
        ELSE [cd |-> [shown EXCEPT !.timeLeft = @ - 1],
              threw |-> FALSE, toasts |-> <<>>, disable |-> FALSE]

\* One run of updateTimer on the closure c.  timerBound: the const `timer` is
\* initialised (false only for the call of line 418, which runs before line
\* 419: reading timer there is a ReferenceError).  disable: the buttons of
\* the owning form were disabled.
updateTimer(c, timerBound) ==
    LET shown == [c EXCEPT !.text = ClockText(c.timeLeft)]
    IN  IF c.timeLeft <= 0
        THEN IF ~timerBound
             THEN [cd |-> shown, threw |-> TRUE, toasts |-> <<>>, disable |-> FALSE]
             ELSE LET t == showToast(<<>>, "Votre session a expire. Veuillez recommencer.")
                  IN  [cd |-> [shown EXCEPT !.timer = FALSE,
                                            !.text = ExpiredText,
                                            !.expired = TRUE,
                                            !.timeLeft = IF t.threw THEN @ ELSE @ - 1],
                       threw |-> t.threw, toasts |-> t.toasts, disable |-> TRUE]
        ELSE [cd |-> [shown EXCEPT !.timeLeft = @ - 1],
              threw |-> FALSE, toasts |-> <<>>, disable |-> FALSE]

\* a .countdown-timer element whose countdown was not started
NoCountdown ==
    [started |-> FALSE, seconds |-> 0, timeLeft |-> 0, timer |-> FALSE,
     expired |-> FALSE, text |-> ClockText(0), ticks |-> 0, threw |-> FALSE]

\* startCountdown(element, seconds): the first updateTimer(), then setInterval
startCountdown(seconds) ==
    LET c0 == [NoCountdown EXCEPT !.started = TRUE, !.seconds = seconds,
                                  !.timeLeft = seconds]
        r  == updateTimer(c0, FALSE)
    IN  [r.cd EXCEPT !.timer = ~r.threw, !.threw = r.threw]

\* setupCountdownTimers over the forms in document order: the forEach ends at
\* the first startCountdown that throws
setupCountdownTimers(present, dataSeconds) ==
    LET c1 == IF 1 \in present THEN startCountdown(CountdownSeconds(dataSeconds[1]))
              ELSE NoCountdown
        c2 == IF 2 \in present /\ ~c1.threw
              THEN startCountdown(CountdownSeconds(dataSeconds[2]))
              ELSE NoCountdown
    IN  <<c1, c2>>

\* ------------------------------------------------------------------------
\* Initial states: the page as rendered, after new PaymentManager()
\* ------------------------------------------------------------------------
EmptyFields == [n \in FieldNames |-> <<>>]

InitPage(present, clocks, attrs, secondsAttrs, fields) ==
    /\ forms = present
    /\ selected = {}
    /\ hidden = ""
    /\ visiblePanel = ""
    /\ field \in fields
    /\ terms = FALSE
    /\ amountAttr \in attrs
    /\ now \in clocks
    /\ \E d \in BOOLEAN :
         submitBtn = [f \in Forms |-> [disabled |-> d, label |-> "original"]]
    /\ dlBtn = [f \in Forms |-> [disabled |-> FALSE, label |-> "original",
                                 pending |-> FALSE, originalText |-> "original"]]
    /\ \E ds \in [Forms -> secondsAttrs \cup {Undefined}] :
         /\ \A f \in present : ds[f] \in secondsAttrs
         /\ \A f \in Forms \ present : ds[f] = Undefined
         /\ secondsAttr = ds
         /\ countdown = setupCountdownTimers(present, ds)
    /\ qrContainer = "empty"
    /\ qrInFlight = {}
    /\ qrIssued = 0
    /\ copyIcon = "original"
    /\ copyPending = 0
    /\ copyTimers = <<>>
    /\ copyWritten = 0
    /\ last = Step("init", 0, "")

\* ------------------------------------------------------------------------
\* Actions
\* ------------------------------------------------------------------------
\* the user changes the value of a named input
EditField(name, v) ==
    /\ field[name] # v
    /\ field' = [field EXCEPT ![name] = v]
    /\ last' = Step("input", 0, "")
    /\ UNCHANGED <<domVars, envVars, terms, dlBtn, countdown, auxVars>>

\* the user ticks or unticks #terms
ToggleTerms ==
    /\ terms' = ~terms
    /\ last' = Step("input", 0, "")
    /\ UNCHANGED <<domVars, envVars, field, dlBtn, countdown, auxVars>>

\* selectPaymentMethod without the deselection loop of lines 92-94
selectPaymentMethodNoDeselect(f, m) ==
    /\ f \in forms
    /\ selected' = selected \cup {<<f, m>>}
    /\ hidden' = m
    /\ visiblePanel' = m
    /\ submitBtn' = [submitBtn EXCEPT ![FirstForm].disabled = FALSE]
    /\ last' = [Step("selectPaymentMethod", f, m) EXCEPT
                  !.events = <<trackEvent("payment_method_selected", m, <<>>)>>]
    /\ UNCHANGED <<envVars, inputVars, dlBtn, countdown, auxVars>>

\* click on the card of method m in form f
selectPaymentMethod(f, m) ==
    /\ f \in forms
    /\ selected' = {c \in selected : c \notin Forms \X Methods} \cup {<<f, m>>}
    /\ hidden' = m
    /\ visiblePanel' = m
    /\ submitBtn' = [submitBtn EXCEPT ![FirstForm].disabled = FALSE]
    /\ last' = [Step("selectPaymentMethod", f, m) EXCEPT
                  !.events = <<trackEvent("payment_method_selected", m, <<>>)>>]
    /\ UNCHANGED <<envVars, inputVars, dlBtn, countdown, auxVars>>

\* blur on a named input of #payment-form: validateField
validateField(name) ==
    LET value   == Trim(field[name])
        isValid == CASE name = "card_number" -> validateCardNumber(value)
                     [] name = "expiry_date" -> validateExpiryDate(value, now)
                     [] name = "cvv"         -> validateCVV(value)
                     [] name = "amount"      -> validateAmount(value, amountAttr.min, amountAttr.max)
                     [] OTHER                -> TRUE
    IN  /\ FirstForm \in forms
        /\ last' = [Step("validateField", FirstForm, name) EXCEPT
                      !.value = value,
                      !.ret = IF isValid THEN "true" ELSE "false"]
        /\ UNCHANGED <<domVars, envVars, inputVars, dlBtn, countdown, auxVars>>

\* validatePaymentForm with the loader of lines 339-343 shown before the terms check
validatePaymentFormLoaderFirst(f) ==
    LET selectedMethod == hidden
        step == Step("validatePaymentForm", f, selectedMethod)
        mv   == MethodValidation(selectedMethod, field, now)
    IN  /\ f \in forms
        /\ ~submitBtn[f].disabled
        /\ IF selectedMethod = ""
           THEN LET t == showToast(<<>>, "Veuillez selectionner une methode de paiement")
                IN  /\ last' = [step EXCEPT !.prevented = TRUE, !.toasts = t.toasts,
                                            !.ret = IF t.threw THEN "threw" ELSE "false"]
                    /\ UNCHANGED submitBtn
           ELSE IF mv.threw
           THEN /\ last' = [step EXCEPT !.toasts = mv.toasts, !.ret = "threw"]
                /\ UNCHANGED submitBtn
           ELSE IF ~mv.isValid
           THEN /\ last' = [step EXCEPT !.prevented = TRUE, !.toasts = mv.toasts,
                                        !.ret = "false"]
                /\ UNCHANGED submitBtn
           ELSE IF ~terms
           THEN LET t == showToast(mv.toasts, "Veuillez accepter les conditions generales")
                IN  /\ last' = [step EXCEPT !.prevented = TRUE, !.toasts = t.toasts,
                                            !.ret = IF t.threw THEN "threw" ELSE "false"]
                    /\ submitBtn' = [submitBtn EXCEPT ![f] = [disabled |-> TRUE, label |-> "loading"]]
           ELSE /\ submitBtn' = [submitBtn EXCEPT ![f] = [disabled |-> TRUE, label |-> "loading"]]
                /\ last' = [step EXCEPT
                              !.toasts = mv.toasts,
                              !.events = <<trackEvent("payment_form_submitted",
                                                      selectedMethod, field["amount"])>>,
                              !.ret = "true"]
        /\ UNCHANGED <<selected, hidden, visiblePanel, envVars, inputVars, dlBtn, countdown, auxVars>>

\* submit event on form f (its submit button is not disabled): validatePaymentForm
validatePaymentForm(f) ==
    LET selectedMethod == hidden
        step == Step("validatePaymentForm", f, selectedMethod)
        mv   == MethodValidation(selectedMethod, field, now)
    IN  /\ f \in forms
        /\ ~submitBtn[f].disabled
        /\ IF selectedMethod = ""
           THEN LET t == showToast(<<>>, "Veuillez selectionner une methode de paiement")
                IN  /\ last' = [step EXCEPT !.prevented = TRUE, !.toasts = t.toasts,
                                            !.ret = IF t.threw THEN "threw" ELSE "false"]
                    /\ UNCHANGED submitBtn
           ELSE IF mv.threw
           THEN /\ last' = [step EXCEPT !.toasts = mv.toasts, !.ret = "threw"]
                /\ UNCHANGED submitBtn
           ELSE IF ~mv.isValid
           THEN /\ last' = [step EXCEPT !.prevented = TRUE, !.toasts = mv.toasts,
                                        !.ret = "false"]
                /\ UNCHANGED submitBtn
           ELSE IF ~terms
           THEN LET t == showToast(mv.toasts, "Veuillez accepter les conditions generales")
                IN  /\ last' = [step EXCEPT !.prevented = TRUE, !.toasts = t.toasts,
                                            !.ret = IF t.threw THEN "threw" ELSE "false"]
                    /\ UNCHANGED submitBtn
           ELSE /\ submitBtn' = [submitBtn EXCEPT ![f] = [disabled |-> TRUE, label |-> "loading"]]
                /\ last' = [step EXCEPT
                              !.toasts = mv.toasts,
                              !.events = <<trackEvent("payment_form_submitted",
                                                      selectedMethod, field["amount"])>>,
                              !.ret = "true"]
        /\ UNCHANGED <<selected, hidden, visiblePanel, envVars, inputVars, dlBtn, countdown, auxVars>>

\* the interval of form f's countdown fires: updateTimer
Tick(f) ==
    LET r == updateTimer(countdown[f], TRUE)
    IN  /\ f \in forms
        /\ countdown[f].timer
        /\ countdown' = [countdown EXCEPT ![f] = [r.cd EXCEPT !.ticks = @ + 1]]
        /\ submitBtn' = IF r.disable THEN [submitBtn EXCEPT ![f].disabled = TRUE]
                        ELSE submitBtn
        /\ dlBtn' = IF r.disable THEN [dlBtn EXCEPT ![f].disabled = TRUE] ELSE dlBtn
        /\ last' = [Step("updateTimer", f, "") EXCEPT
                      !.toasts = r.toasts,
                      !.ret = IF r.threw THEN "threw" ELSE "none"]
        /\ UNCHANGED <<selected, hidden, visiblePanel, envVars, inputVars, auxVars>>

\* click on the .download-invoice button of form f: downloadInvoice up to the fetch
downloadInvoice(f) ==
    /\ f \in forms
    /\ ~dlBtn[f].disabled
    /\ dlBtn' = [dlBtn EXCEPT ![f] = [disabled |-> TRUE, label |-> "loading",
                                      pending |-> TRUE, originalText |-> dlBtn[f].label]]
    /\ last' = Step("downloadInvoice", f, "")
    /\ UNCHANGED <<domVars, envVars, inputVars, countdown, auxVars>>

DownloadOutcomes == {"saved", "fetchRejected", "saveFailed"}

\* downloadSettled with the restoration of lines 513-516 at the end of the
\* then callback instead of in finally
downloadSettledRestoreInThen(f, outcome) ==
    LET t1 == IF outcome = "saved" THEN showToast(<<>>, "Facture telechargee")
              ELSE [toasts |-> <<>>, threw |-> TRUE]
        t2 == IF t1.threw THEN showToast(t1.toasts, "Erreur lors du telechargement")
              ELSE t1
    IN  /\ f \in forms
        /\ dlBtn[f].pending
        /\ dlBtn' = IF t1.threw THEN [dlBtn EXCEPT ![f].pending = FALSE]
                    ELSE [dlBtn EXCEPT ![f] = [disabled |-> FALSE, label |-> dlBtn[f].originalText,
                                               pending |-> FALSE, originalText |-> dlBtn[f].originalText]]
        /\ last' = [Step("downloadSettled", f, outcome) EXCEPT
                      !.toasts = t2.toasts,
                      !.ret = IF t2.threw THEN "threw" ELSE "none"]
        /\ UNCHANGED <<domVars, envVars, inputVars, countdown, auxVars>>

\* the fetch of form f's download settles: then / catch / finally
downloadSettled(f, outcome) ==
    LET t1 == IF outcome = "saved" THEN showToast(<<>>, "Facture telechargee")
              ELSE [toasts |-> <<>>, threw |-> TRUE]
        t2 == IF t1.threw THEN showToast(t1.toasts, "Erreur lors du telechargement")
              ELSE t1
    IN  /\ f \in forms
        /\ dlBtn[f].pending
        /\ dlBtn' = [dlBtn EXCEPT ![f] = [disabled |-> FALSE, label |-> dlBtn[f].originalText,
                                          pending |-> FALSE, originalText |-> dlBtn[f].originalText]]
        /\ last' = [Step("downloadSettled", f, outcome) EXCEPT
                      !.toasts = t2.toasts,
                      !.ret = IF t2.threw THEN "threw" ELSE "none"]
        /\ UNCHANGED <<domVars, envVars, inputVars, countdown, auxVars>>

\* ------------------------------------------------------------------------
\* Specification of one form's lifecycle
\* ------------------------------------------------------------------------
MaxSeconds == 5

\* the data-seconds attributes: "1" .. "<MaxSeconds>", and an overdue "-1"
SecondsAttrs == {Digits(<<n>>) : n \in 1..MaxSeconds} \cup {<<"-", "1">>}

ValidCard == Digits(<<4, 1, 1, 1, 1, 1, 1, 1, 1, 1, 1, 1, 1, 1, 1, 1>>)

ValidCardFields ==
    [card_number |-> ValidCard,
     expiry_date |-> <<"1", "2", "/", "9", "9">>,
     cvv         |-> <<"1", "2", "3">>,
     card_name   |-> <<"A", "l">>]

\* what the user may put in the card number and amount inputs
FormInputs ==
    [card_number |-> {<<>>, ValidCard},
     amount      |-> {<<>>, <<"5", "0">>}]

\* the browser fills the four card inputs from a saved card
AutofillCard ==
    /\ \E n \in DOMAIN ValidCardFields : field[n] # ValidCardFields[n]
    /\ field' = [n \in FieldNames |->
                  IF n \in DOMAIN ValidCardFields THEN ValidCardFields[n] ELSE field[n]]
    /\ last' = Step("input", 0, "")
    /\ UNCHANGED <<domVars, envVars, terms, dlBtn, countdown, auxVars>>

Clock == [year |-> 2026, month |-> 11]

NoAttrs == [min |-> Undefined, max |-> Undefined]

Init == InitPage({FirstForm}, {Clock}, {NoAttrs}, SecondsAttrs, {EmptyFields})

Next ==
    \/ \E n \in DOMAIN FormInputs : \E v \in FormInputs[n] : EditField(n, v)
    \/ AutofillCard
    \/ ToggleTerms
    \/ \E f \in Forms, m \in Methods : selectPaymentMethod(f, m)
    \/ \E n \in FieldNames : validateField(n)
    \/ \E f \in Forms : validatePaymentForm(f)
    \/ \E f \in Forms : Tick(f)

Spec == Init /\ [][Next]_vars

\* ------------------------------------------------------------------------
\* Properties of the lifecycle (checked under Spec)
\* ------------------------------------------------------------------------
Submitted == last.op = "validatePaymentForm"

\* the native submission goes on: the handler did not call preventDefault
Proceeds == Submitted /\ ~last.prevented

\* the gate as the specification words it, read off the inputs
CardFieldsValid ==
    /\ validateCardNumber(field["card_number"])
    /\ validateExpiryDate(field["expiry_date"], now)
    /\ validateCVV(field["cvv"])
    /\ Len(Trim(field["card_name"])) >= 2

GateOpen ==
    /\ hidden # ""
    /\ hidden \in {"CREDIT_CARD", "DEBIT_CARD"} => CardFieldsValid
    /\ terms

ExpiryToast == <<"Votre session a expire. Veuillez recommencer.">>

\* C1: a submit event is let through only if a method is selected, the
\* method's validation passes and the terms are accepted.
C1_ProceedsOnlyIfGateOpen == Proceeds => GateOpen

\* C1, what holds: validatePaymentForm returns true exactly when the gate is
\* open, and a submit event that is let through with the gate shut is one
\* whose card validation ended in showToast.
C1_ReturnsTrueIffGateOpen ==
    Submitted =>
        /\ (last.ret = "true") <=> GateOpen
        /\ Proceeds /\ ~GateOpen =>
              hidden \in {"CREDIT_CARD", "DEBIT_CARD"} /\ ~CardFieldsValid /\ last.ret = "threw"

\* C2: after the countdown of a form has expired, no submit event on that
\* form ends with validatePaymentForm returning true.
C2_NoSubmitAfterExpiry ==
    Submitted /\ countdown[last.form].expired => last.ret # "true"

\* C3: every button of a form whose countdown has expired is disabled.
C3_ExpiredFormStaysDisabled ==
    \A f \in forms : countdown[f].expired => submitBtn[f].disabled /\ dlBtn[f].disabled

\* C4: a countdown started with N >= 1 seconds is running and not expired
\* before its N-th tick; the N-th tick renders the expired indicator,
\* disables the buttons of the form, emits the expiry toast and clears the
\* timer; there is no tick after the N-th, so the toast is emitted once.
C4_ExpiresAtNthTick ==
    \A f \in forms :
        LET c == countdown[f]
        IN  c.started /\ c.seconds >= 1 =>
              /\ c.ticks <= c.seconds
              /\ c.ticks < c.seconds => ~c.expired /\ c.timer /\ ~c.text.expired
              /\ c.ticks = c.seconds => c.expired /\ ~c.timer /\ c.text = ExpiredText
              /\ last.op = "updateTimer" /\ last.form = f =>
                    /\ last.toasts = IF c.ticks = c.seconds THEN ExpiryToast ELSE <<>>
                    /\ c.ticks = c.seconds => submitBtn[f].disabled /\ dlBtn[f].disabled

C4_Witness ==
    /\ countdown[FirstForm].seconds = 5
    /\ countdown[FirstForm].ticks = 5
    /\ countdown[FirstForm].expired
    /\ last.op = "updateTimer"

\* C5: the counter of a started countdown is never negative.
C5_SecondsNonNegative ==
    \A f \in forms : countdown[f].started => countdown[f].timeLeft >= 0

\* C5, what holds: the counter of a countdown started with N >= 1 is never
\* negative; no step increases a counter; an expired countdown stays expired
\* with its timer cleared.
C5_NonNegativeFromPositiveStart ==
    \A f \in forms :
        countdown[f].started /\ countdown[f].seconds >= 1 => countdown[f].timeLeft >= 0

C5_NeverIncreasesOneWay ==
    [][\A f \in forms :
          /\ countdown'[f].timeLeft <= countdown[f].timeLeft
          /\ countdown[f].expired => countdown'[f].expired /\ ~countdown'[f].timer]_vars

\* C9: a submit event with no method selected is blocked, returns false, and
\* shows the 'select a payment method' toast and nothing else.
C9_NoMethodBlocks ==
    Submitted /\ hidden = "" =>
        /\ last.prevented
        /\ last.ret = "false"
        /\ last.toasts = <<"Veuillez selectionner une methode de paiement">>
        /\ last.events = <<>>

\* C10: at most one card is marked selected and the hidden field holds its
\* method; right after a click on a card that card is the one marked, the
\* submit control is enabled and one payment_method_selected event carrying
\* the card's method was emitted.
C10_SelectionIsLastClicked ==
    /\ \/ selected = {} /\ hidden = ""
       \/ \E c \in Forms \X Methods : selected = {c} /\ hidden = c[2]
    /\ last.op = "selectPaymentMethod" =>
          /\ selected = {<<last.form, last.arg>>}
          /\ hidden = last.arg
          /\ ~submitBtn[FirstForm].disabled
          /\ last.events = <<[name |-> "payment_method_selected",
                              method |-> last.arg, amount |-> <<>>]>>

C10_Witness ==
    /\ last.op = "selectPaymentMethod"
    /\ last.arg = "BANK_TRANSFER"
    /\ submitBtn[FirstForm].label = "loading"

\* C11: a payment_form_submitted event carrying the selected method and the
\* amount is emitted exactly by the submit steps that return true, and such
\* a step leaves the form's submit button disabled with the loader label;
\* a submit step that does not return true emits no event and leaves every
\* submit button as it was
C11_SubmitEffectsOnlyOnTrue ==
    [][last'.op = "validatePaymentForm" =>
         IF last'.ret = "true"
         THEN /\ last'.events = <<[name |-> "payment_form_submitted", method |-> hidden',
                                   amount |-> field'["amount"]]>>
              /\ submitBtn'[last'.form] = [disabled |-> TRUE, label |-> "loading"]
         ELSE /\ last'.events = <<>>
              /\ submitBtn' = submitBtn]_vars

\* a submit that returned true for a card payment of 50
C11_Witness ==
    /\ Submitted
    /\ last.ret = "true"
    /\ last.arg = "CREDIT_CARD"
    /\ last.events # <<>>
    /\ field["amount"] = <<"5", "0">>
    /\ submitBtn[last.form].disabled

\* C18: a submit step with no method selected, with a failing card
\* validation or with the terms unticked blocks the submission and leaves
\* the form as it was and open to a retry: the submit buttons (still
\* enabled), the selection, the hidden method, the inputs and the terms box
C18_BlockedLeavesFormEditable ==
    [][last'.op = "validatePaymentForm" /\ ~GateOpen =>
         /\ last'.prevented
         /\ submitBtn' = submitBtn
         /\ ~submitBtn'[last'.form].disabled
         /\ <<selected, hidden, visiblePanel, field, terms>>'
               = <<selected, hidden, visiblePanel, field, terms>>]_vars

\* C18, what holds: a submit step that does not return true changes nothing
\* of the form, whether it blocked the submission or ended by an exception
C18_UnchangedUnlessTrue ==
    [][last'.op = "validatePaymentForm" /\ last'.ret # "true" =>
         /\ submitBtn' = submitBtn
         /\ ~submitBtn'[last'.form].disabled
         /\ <<selected, hidden, visiblePanel, field, terms>>'
               = <<selected, hidden, visiblePanel, field, terms>>]_vars

\* C20: once a submit of a form has returned true (its button shows the
\* loader), the button stays disabled and no submit of that form returns
\* true again
C20_AtMostOneSuccess ==
    [][\A f \in forms :
          submitBtn[f].label = "loading" =>
              /\ submitBtn'[f].disabled
              /\ ~(/\ last'.op = "validatePaymentForm"
                    /\ last'.form = f
                    /\ last'.ret = "true")]_vars

\* C21: a step that called showToast came back from it normally, so the
\* statements after the toast were run: in particular a submit event whose
\* card validation failed is blocked by preventDefault
C21_ShowToastReturnsNormally ==
    /\ last.toasts # <<>> => last.ret # "threw"
    /\ Submitted /\ hidden \in {"CREDIT_CARD", "DEBIT_CARD"} /\ ~CardFieldsValid =>
          last.prevented

\* C21, what holds: the call appends its toast before it fails, one toast
\* for the one call of a submit event with no method selected or with the
\* terms unticked, and for the first invalid card field
C21_OneToastBeforeFailing ==
    Submitted /\ last.ret # "true" =>
        /\ Len(last.toasts) = 1
        /\ last.ret = "threw"

\* ------------------------------------------------------------------------
\* Card-number validation on its own (SpecCard)
\* ------------------------------------------------------------------------
\* how far the lengths of the inputs reach beyond [MinCardLength, MaxCardLength]
LengthMargin == 1

\* the number of digit patterns per length
CardSeeds == 3

CardPattern(len, seed) == [i \in 1..len |-> (seed * i + i * i + seed) % 10]

\* digit strings of every length around the accepted range, with every last digit
CardBases ==
    {Digits(CardPattern(len - 1, seed) \o <<d>>) :
        len \in (MinCardLength - LengthMargin)..(MaxCardLength + LengthMargin),
        seed \in 1..CardSeeds, d \in 0..9}

\* s in groups of four separated by spaces, as the input formatter leaves it
RECURSIVE Grouped(_)
Grouped(s) ==
    IF Len(s) <= 4 THEN s
    ELSE SubSeq(s, 1, 4) \o <<" ">> \o Grouped(SubSeq(s, 5, Len(s)))

CardInputs ==
    CardBases
    \cup {Grouped(b) : b \in CardBases}
    \cup {<<" ">> \o b \o <<" ">> : b \in CardBases}
    \cup {[b EXCEPT ![i] = c] : b \in CardBases, i \in {1, 7}, c \in {"a", "-"}}

\* the page is rendered with the card number already in the input
InitCard ==
    InitPage({FirstForm}, {Clock}, {NoAttrs}, {Digits(<<MaxSeconds>>)},
             {[EmptyFields EXCEPT !["card_number"] = v] : v \in CardInputs})

NextCard == validateField("card_number")

SpecCard == InitCard /\ [][NextCard]_vars

\* the Luhn rule of the specification, by position: the digit k places from
\* the right (the rightmost is 0) is doubled when k is odd, and 9 is taken off
\* a double above 9
RefLuhnTerm(d, k) ==
    IF k % 2 = 0 THEN d ELSE IF 2 * d > 9 THEN 2 * d - 9 ELSE 2 * d

RECURSIVE RefLuhnSum(_, _)
RefLuhnSum(s, n) ==
    IF n = 0 THEN 0
    ELSE RefLuhnSum(s, n - 1) + RefLuhnTerm(DigitVal(s[n]), Len(s) - n)

RefCardValid(s) ==
    /\ \A i \in 1..Len(s) : s[i] \in DigitChars
    /\ Len(s) >= 13 /\ Len(s) <= 19
    /\ RefLuhnSum(s, Len(s)) % 10 = 0

CardValidated == last.op = "validateField" /\ last.arg = "card_number"

\* C6: card-number validation accepts a value iff, whitespace removed, it is
\* a string of 13 to 19 digits whose Luhn sum is 0 mod 10; and no string that
\* differs from an accepted one in a single digit is accepted.
C6_CardNumberIsLuhn ==
    CardValidated =>
        LET cleaned == StripWhitespace(last.value)
        IN  /\ (last.ret = "true") <=> RefCardValid(cleaned)
            /\ last.ret = "true" =>
                 \A i \in 1..Len(cleaned) : \A c \in DigitChars \ {cleaned[i]} :
                     ~validateCardNumber([cleaned EXCEPT ![i] = c])

C6_Witness ==
    /\ CardValidated
    /\ last.ret = "true"
    /\ Len(last.value) > Len(StripWhitespace(last.value))
    /\ Len(StripWhitespace(last.value)) = 19

\* ------------------------------------------------------------------------
\* Expiry-date validation on its own (SpecExpiry)
\* ------------------------------------------------------------------------
Clocks == {[year |-> y, month |-> m] : y \in {2000, 2024, 2026, 2099}, m \in {1, 6, 11, 12}}

ExpiryMonths == {<<0, 0>>, <<0, 1>>, <<0, 5>>, <<0, 6>>, <<1, 1>>, <<1, 2>>, <<1, 3>>, <<9, 9>>}

ExpiryYears == {<<0, 0>>, <<2, 3>>, <<2, 4>>, <<2, 5>>, <<2, 6>>, <<2, 7>>, <<9, 9>>}

ExpiryInputs ==
    {Digits(mm) \o <<"/">> \o Digits(yy) : mm \in ExpiryMonths, yy \in ExpiryYears}
    \cup {<<>>,
          <<"1", "/", "2", "7">>,
          <<"1", "2", "2", "7">>,
          <<"1", "2", "-", "2", "7">>,
          <<"1", "2", "/", "2", "0", "2", "7">>,
          <<"1", "2", "/", "2", "7", "x">>,
          <<"a", "b", "/", "c", "d">>,
          <<"1", "2", "/", " ", "7">>,
          <<" ", "1", "2", "/", "2", "7", " ">>}

InitExpiry ==
    InitPage({FirstForm}, Clocks, {NoAttrs}, {Digits(<<MaxSeconds>>)},
             {[EmptyFields EXCEPT !["expiry_date"] = v] : v \in ExpiryInputs})

NextExpiry == validateField("expiry_date")

SpecExpiry == InitExpiry /\ [][NextExpiry]_vars

\* months since year 00 of the century: orders (year, month) pairs with
\* month in 1..12 as the lexicographic order does
MonthIndex(yy, mm) == 12 * yy + mm

RefExpiryValid(s, clock) ==
    /\ Len(s) = 5
    /\ \A i \in {1, 2, 4, 5} : s[i] \in DigitChars
    /\ s[3] = "/"
    /\ LET mm == 10 * DigitVal(s[1]) + DigitVal(s[2])
           yy == 10 * DigitVal(s[4]) + DigitVal(s[5])
       IN  /\ mm >= 1 /\ mm <= 12
           /\ MonthIndex(yy, mm) >= MonthIndex(clock.year % 100, clock.month)

ExpiryValidated == last.op = "validateField" /\ last.arg = "expiry_date"

\* C7: validateExpiryDate accepts a value iff it reads MM/YY with two digits
\* each, 1 <= MM <= 12, and (YY, MM) is not before the current (year mod 100,
\* month); "12/99" is always accepted, month 00 and month 13 never.
C7_ExpiryNotBeforeNow ==
    ExpiryValidated =>
        /\ (last.ret = "true") <=> RefExpiryValid(last.value, now)
        /\ last.value = <<"1", "2", "/", "9", "9">> => last.ret = "true"
        /\ Len(last.value) = 5 /\ SubSeq(last.value, 1, 2) \in {<<"0", "0">>, <<"1", "3">>}
              => last.ret = "false"

\* the current month is accepted
C7_Witness ==
    /\ ExpiryValidated
    /\ last.ret = "true"
    /\ now = [year |-> 2026, month |-> 11]
    /\ last.value = <<"1", "1", "/", "2", "6">>

\* ------------------------------------------------------------------------
\* Amount validation on its own (SpecAmount)
\* ------------------------------------------------------------------------
AmountAttrs ==
    {[min |-> a, max |-> b] :
        a \in {Undefined, <<"0">>, <<"0", ".", "5">>, <<"1", "0">>},
        b \in {Undefined, <<"0">>, <<"1", "0", "0">>}}

AmountInputs ==
    {<<>>, <<"a", "b", "c">>, <<"0">>, <<"0", ".", "0", "0", "5">>,
     <<"0", ".", "0", "1">>, <<"0", ".", "5">>, <<"1">>, <<"1", "0">>, <<"5", "0">>,
     <<"1", "0", "0">>, <<"1", "0", "0", ".", "0", "1">>,
     <<"1", "0", "0", "0", "0", "0">>, <<"1", "0", "0", "0", "0", "1">>,
     <<"-", "1">>, <<"1", "2", "a", "b", "c">>}

InitAmount ==
    InitPage({FirstForm}, {Clock}, AmountAttrs, {Digits(<<MaxSeconds>>)},
             {[EmptyFields EXCEPT !["amount"] = v] : v \in AmountInputs})

NextAmount == validateField("amount")

SpecAmount == InitAmount /\ [][NextAmount]_vars

AmountValidated == last.op = "validateField" /\ last.arg = "amount"

\* C8: with both bounds configured, whatever their values, an amount is
\* accepted iff it is a number and min <= amount <= max.
C8_AmountWithinConfiguredBounds ==
    LET lo == ParseFloat(amountAttr.min)
        hi == ParseFloat(amountAttr.max)
        a  == ParseFloat(last.value)
    IN  AmountValidated /\ ~lo.nan /\ ~hi.nan =>
            ((last.ret = "true") <=> (~a.nan /\ lo.v <= a.v /\ a.v <= hi.v))

\* ------------------------------------------------------------------------
\* Copy of a reference to the clipboard (SpecCopy)
\* ------------------------------------------------------------------------
\* the clicks on the .copy-reference button whose write succeeds
MaxCopies == 3

\* click on the .copy-reference button: copyToClipboard up to writeText
copyToClipboard ==
    /\ copyWritten + copyPending < MaxCopies
    /\ copyPending' = copyPending + 1
    /\ last' = Step("copyToClipboard", 0, "")
    /\ UNCHANGED <<domVars, envVars, inputVars, dlBtn, countdown, qrVars,
                   copyIcon, copyTimers, copyWritten>>

ClipboardOutcomes == {"written", "denied"}

\* a writeText promise settles: the then callback (lines 466-478), whose
\* first statement is the showToast of line 467, and the catch callback
\* (lines 479-482) when the promise or the then callback rejects
copySettled(outcome) ==
    LET t1 == IF outcome = "written" THEN showToast(<<>>, "Copie dans le presse-papier")
              ELSE [toasts |-> <<>>, threw |-> TRUE]
        swapped == outcome = "written" /\ ~t1.threw
        t2 == IF t1.threw THEN showToast(t1.toasts, "Echec de la copie") ELSE t1
    IN  /\ copyPending > 0
        /\ copyPending' = copyPending - 1
        /\ copyWritten' = IF outcome = "written" THEN copyWritten + 1 ELSE copyWritten
        /\ copyIcon' = IF swapped THEN "fas fa-check" ELSE copyIcon
        /\ copyTimers' = IF swapped THEN Append(copyTimers, copyIcon) ELSE copyTimers
        /\ last' = [Step("copySettled", 0, outcome) EXCEPT
                      !.toasts = t2.toasts,
                      !.ret = IF t2.threw THEN "threw" ELSE "none"]
        /\ UNCHANGED <<domVars, envVars, inputVars, dlBtn, countdown, qrVars>>

\* the callback of the oldest setTimeout of line 475: icon.className = originalClass
revertIcon ==
    /\ copyTimers # <<>>
    /\ copyIcon' = Head(copyTimers)
    /\ copyTimers' = Tail(copyTimers)
    /\ last' = Step("revertIcon", 0, "")
    /\ UNCHANGED <<domVars, envVars, inputVars, dlBtn, countdown, qrVars,
                   copyPending, copyWritten>>

\* the timers of the page that are due: the interval of a running countdown,
\* and the oldest pending revert (equal delays fire in the order they were set)
Timers ==
    {<<"interval", f>> : f \in {g \in forms : countdown[g].timer}}
        \cup (IF copyTimers # <<>> THEN {<<"timeout", 0>>} ELSE {})

\* the browser runs the callback of the timer t
TimerFires(t) ==
    /\ t \in Timers
    /\ IF t[1] = "interval" THEN Tick(t[2]) ELSE revertIcon

InitCopy == InitPage({FirstForm}, {Clock}, {NoAttrs}, SecondsAttrs, {EmptyFields})

NextCopy ==
    \/ copyToClipboard
    \/ \E o \in ClipboardOutcomes : copySettled(o)
    \/ \E t \in ({"interval"} \X Forms) \cup {<<"timeout", 0>>} : TimerFires(t)

SpecCopy == InitCopy /\ [][NextCopy]_vars

InitDownload == InitPage({FirstForm}, {Clock}, {NoAttrs}, SecondsAttrs, {EmptyFields})

\* the fetch of a pending download settles, one way or another
FetchSettles == \E f \in Forms, o \in DownloadOutcomes : downloadSettled(f, o)

NextDownload ==
    \/ \E f \in Forms : downloadInvoice(f)
    \/ FetchSettles
    \/ \E f \in Forms : Tick(f)

\* a fetch does not stay pending for ever: the response arrives or the
\* request fails, and the callbacks of the settled promise are run
SpecDownload == InitDownload /\ [][NextDownload]_vars /\ WF_vars(FetchSettles)

\* C13: while a download is pending its button is disabled and shows the
\* loader; the step that settles it, whatever the outcome, leaves the button
\* enabled with the label it had when clicked; and every pending download is
\* settled in the end
C13_DownloadRestores ==
    /\ [](\A f \in Forms : dlBtn[f].pending =>
             dlBtn[f].disabled /\ dlBtn[f].label = "loading")
    /\ [][\A f \in Forms :
             /\ ~dlBtn[f].pending /\ dlBtn'[f].pending => dlBtn[f].label = "original"
             /\ dlBtn[f].pending /\ ~dlBtn'[f].pending =>
                   ~dlBtn'[f].disabled /\ dlBtn'[f].label = "original"]_vars
    /\ \A f \in Forms :
          dlBtn[f].pending ~>
              (~dlBtn[f].pending /\ ~dlBtn[f].disabled /\ dlBtn[f].label = "original")

\* a download whose save failed has been settled, after the countdown expired
C13_Witness ==
    /\ last.op = "downloadSettled"
    /\ last.arg = "saveFailed"
    /\ countdown[last.form].expired
    /\ ~dlBtn[last.form].pending
    /\ ~dlBtn[last.form].disabled
    /\ dlBtn[last.form].label = "original"

\* ------------------------------------------------------------------------
\* Generation of a QR code (SpecQR)
\* ------------------------------------------------------------------------
\* the clicks on the .generate-qr button
MaxRequests == 3

\* initialize ran to its end: no startCountdown threw, so setupQRCodeGenerator
\* (line 12) attached the click listeners
InitCompleted == \A f \in Forms : ~countdown[f].threw

\* click on the .generate-qr button: generateQRCode up to the fetch
generateQRCode ==
    /\ InitCompleted
    /\ qrIssued < MaxRequests
    /\ qrContainer' = "loader"
    /\ qrIssued' = qrIssued + 1
    /\ qrInFlight' = qrInFlight \cup {qrIssued + 1}
    /\ last' = Step("generateQRCode", qrIssued + 1, "")
    /\ UNCHANGED <<domVars, envVars, inputVars, dlBtn, countdown, copyVars>>

\* the API answers success true, it answers success false, or the fetch or
\* the decoding of its answer fails
QrOutcomes == {"success", "failure", "transport"}

\* the fetch of request id settles: the then callback (lines 442-450) unless
\* the transport failed, and the catch callback (lines 451-455) when the
\* transport failed or the then callback threw
qrSettled(id, outcome) ==
    LET shown == IF outcome = "success" THEN "image" ELSE "generationError"
        t1 == CASE outcome = "success" -> showToast(<<>>, "QR Code genere avec succes")
                [] outcome = "failure" -> showToast(<<>>, "Erreur lors de la generation du QR Code")
                [] OTHER -> [toasts |-> <<>>, threw |-> TRUE]
        t2 == IF t1.threw THEN showToast(t1.toasts, "Erreur reseau") ELSE t1
    IN  /\ id \in qrInFlight
        /\ qrInFlight' = qrInFlight \ {id}
        /\ qrContainer' = IF t1.threw THEN "networkError" ELSE shown
        /\ last' = [Step("qrSettled", id, outcome) EXCEPT
                      !.toasts = t2.toasts,
                      !.ret = IF t2.threw THEN "threw" ELSE "none"]
        /\ UNCHANGED <<domVars, envVars, inputVars, dlBtn, countdown, copyVars, qrIssued>>

InitQR == InitPage({FirstForm}, {Clock}, {NoAttrs}, SecondsAttrs, {EmptyFields})

NextQR ==
    \/ generateQRCode
    \/ \E id \in 1..MaxRequests, o \in QrOutcomes : qrSettled(id, o)

SpecQR == InitQR /\ [][NextQR]_vars

\* what the container is to show for a response
QrRendering(outcome) ==
    CASE outcome = "success" -> "image"
      [] outcome = "failure" -> "generationError"
      [] OTHER -> "networkError"

\* C14: a single generateQRCode call shows the loader at once, and when its
\* response has arrived the container shows the image for success true, the
\* generation error (with its toast) for success false and the network
\* error for a failed transport, and no exception has escaped the callbacks
C14_OutcomeMatchesResponse ==
    /\ last.op = "generateQRCode" => qrContainer = "loader"
    /\ last.op = "qrSettled" /\ qrIssued = 1 =>
          /\ qrContainer = QrRendering(last.arg)
          /\ last.arg = "failure" =>
                \E i \in DOMAIN last.toasts :
                    last.toasts[i] = "Erreur lors de la generation du QR Code"
          /\ last.ret # "threw"

\* C19: once every request has been answered, the last answer being that
\* of a request overtaken by a later one, the container shows the outcome of
\* that last answer and not the loader
C19_LastArrivalShown ==
    last.op = "qrSettled" /\ qrInFlight = {} /\ last.form < qrIssued =>
        qrContainer = QrRendering(last.arg) /\ qrContainer # "loader"

\* C19, what holds: once every request has been answered the container is
\* not left on the loader
C19_NotLeftOnLoader == qrInFlight = {} => qrContainer # "loader"

\* ------------------------------------------------------------------------
\* Start of the countdowns (SpecCountdown)
\* ------------------------------------------------------------------------
\* data-seconds as rendered: absent, "0", overdue, or a number of seconds left
StartAttrs == SecondsAttrs \cup {Undefined, <<"0">>, <<"-", "2">>}

InitCountdown == InitPage({FirstForm}, {Clock}, {NoAttrs}, StartAttrs, {EmptyFields})

NextCountdown == \E f \in Forms : Tick(f)

SpecCountdown == InitCountdown /\ [][NextCountdown]_vars

\* C15: a countdown is started with the integer that data-seconds gives,
\* and with DefaultSeconds when the element has no data-seconds
C15_StartsAtDataSeconds ==
    \A f \in forms :
        countdown[f].started =>
            IF secondsAttr[f] = Undefined
            THEN countdown[f].seconds = DefaultSeconds
            ELSE ~ParseInt(secondsAttr[f]).nan =>
                     countdown[f].seconds = ParseInt(secondsAttr[f]).v

\* C17: a countdown whose data-seconds is 0 or negative is expired from the
\* start: the expired text is shown, the buttons of its form are disabled,
\* no interval is running, and initialize ran to its end
C17_OverdueStartsExpired ==
    \A f \in forms :
        LET p == ParseInt(secondsAttr[f])
        IN  ~p.nan /\ p.v <= 0 =>
                /\ countdown[f].expired
                /\ countdown[f].text = ExpiredText
                /\ submitBtn[f].disabled
                /\ dlBtn[f].disabled
                /\ ~countdown[f].timer
                /\ InitCompleted

\* ------------------------------------------------------------------------
\* Two payment forms on one page (SpecTwoForms)
\* ------------------------------------------------------------------------
\* the longest countdown of the two forms
MaxPairSeconds == 2

PairSecondsAttrs == {Digits(<<n>>) : n \in 1..MaxPairSeconds}

InitTwoForms == InitPage(Forms, {Clock}, {NoAttrs}, PairSecondsAttrs, {EmptyFields})

NextTwoForms ==
    \/ ToggleTerms
    \/ \E f \in Forms, m \in Methods : selectPaymentMethod(f, m)
    \/ \E f \in Forms : validatePaymentForm(f)
    \/ \E f \in Forms : Tick(f)

SpecTwoForms == InitTwoForms /\ [][NextTwoForms]_vars

\* what belongs to form g: its selected cards, its submit button, its
\* download button and its countdown
FormState(g) ==
    <<{m \in Methods : <<g, m>> \in selected}, submitBtn[g], dlBtn[g], countdown[g]>>

\* C16: a step of one form (a click on one of its cards, its submit event,
\* a tick of its countdown) leaves the state of every other form as it was
C16_OtherFormUnchanged ==
    [][\A g \in forms :
          last'.form \in forms \ {g} => FormState(g)' = FormState(g)]_vars

====
